---- MODULE Spec2Model ----
(***************************************************************************)
(* The Taylor calculator of src/app.py as a state machine: one request to  *)
(* the /calculate endpoint is read, parsed, decomposed, expanded component *)
(* by component, substituted back and answered.                            *)
(*                                                                         *)
(* The symbolic library the program calls (SymPy) is modelled on the       *)
(* fragment the requests below use: integers, symbols, Add, Mul, Pow with  *)
(* an integer exponent and one relational.  An expression is a tree whose  *)
(* args are in the library's argument order; its value is a Laurent        *)
(* polynomial with integer coefficients over the symbols x, y, z.  The     *)
(* library's floats are integer valued here (the points are -1, 0 and 1)   *)
(* and its undefined values (zoo, nan) are one absorbing value.            *)
(***************************************************************************)
EXTENDS Integers, Sequences, FiniteSets, TLC

\* The largest expansion order a request asks for.
MaxOrder == 2
\* The longest expansions text SpecParse enumerates.
MaxTextLen == 4

(***************************************************************************)
(* Expression trees                                                        *)
(***************************************************************************)
Syms == <<"x", "y", "z">>

SymIdx(s) == CHOOSE i \in 1..Len(Syms) : Syms[i] = s

Node(k, n, s, args) == [k |-> k, n |-> n, s |-> s, args |-> args]

Integer(n) == Node("int", n, "", <<>>)

Symbol(s) == Node("sym", 0, s, <<>>)

Add(args) == Node("add", 0, "", args)

Mul(args) == Node("mul", 0, "", args)

Pow(b, e) == Node("pow", 0, "", <<b, e>>)

Rel(op, l, r) == Node("rel", 0, op, <<l, r>>)

BoolAtom(b) == Node("bool", IF b THEN 1 ELSE 0, "", <<>>)

NaN == Node("nan", 0, "", <<>>)

\* No expression yet (a local the handler has not assigned).
NoExpr == Node("none", 0, "", <<>>)

\* Basic.is_Atom: a node without args.
IsAtom(e) == e.k \in {"int", "sym", "bool", "nan", "none"}

RECURSIVE FreeSymbols(_)
\* Basic.free_symbols.
FreeSymbols(e) ==
    IF e.k = "sym" THEN {e.s}
    ELSE UNION {FreeSymbols(e.args[i]) : i \in 1..Len(e.args)}

RECURSIVE PreorderFrom(_, _)
\* preorder_traversal: the node, then its args from left to right.
PreorderFrom(e, i) ==
    IF i = 0 THEN <<e>> \o PreorderFrom(e, 1)
    ELSE IF i > Len(e.args) THEN <<>>
    ELSE PreorderFrom(e.args[i], 0) \o PreorderFrom(e, i + 1)

Preorder(e) == PreorderFrom(e, 0)

(***************************************************************************)
(* Values: Laurent polynomials, a set of terms [c, e] with distinct        *)
(* exponent vectors e and non-zero coefficients c.                         *)
(***************************************************************************)
ZeroE == [i \in 1..Len(Syms) |-> 0]

UnitE(i) == [j \in 1..Len(Syms) |-> IF j = i THEN 1 ELSE 0]

\* The undefined value: the one set of terms that holds a zero coefficient.
NaNP == {[c |-> 0, e |-> ZeroE]}

PConst(n) == IF n = 0 THEN {} ELSE {[c |-> n, e |-> ZeroE]}

PSym(i) == {[c |-> 1, e |-> UnitE(i)]}

RECURSIVE SumC(_)
SumC(S) ==
    IF S = {} THEN 0
    ELSE LET t == CHOOSE u \in S : TRUE IN t.c + SumC(S \ {t})

\* Collect a set of [c, e, tag] contributions into a polynomial.
Collect(S) ==
    LET es == {t.e : t \in S}
        all == {[c |-> SumC({t \in S : t.e = e}), e |-> e] : e \in es}
    IN {t \in all : t.c # 0}

PAdd(p, q) ==
    IF p = NaNP \/ q = NaNP THEN NaNP
    ELSE Collect({[c |-> t.c, e |-> t.e, tag |-> 1] : t \in p}
                 \cup {[c |-> t.c, e |-> t.e, tag |-> 2] : t \in q})

PMul(p, q) ==
    IF p = NaNP \/ q = NaNP THEN NaNP
    ELSE Collect({[c |-> pr[1].c * pr[2].c,
                   e |-> [i \in 1..Len(Syms) |-> pr[1].e[i] + pr[2].e[i]],
                   tag |-> pr] : pr \in p \X q})

RECURSIVE IntPow(_, _)
IntPow(a, n) == IF n <= 0 THEN 1 ELSE a * IntPow(a, n - 1)

RECURSIVE PPow(_, _)
\* p**n.  A negative power stays in the ring only for a monomial with
\* coefficient 1 or -1; a negative power of zero is undefined.
PPow(p, n) ==
    IF p = NaNP THEN NaNP
    ELSE IF n = 0 THEN PConst(1)
    ELSE IF n > 0 THEN PMul(p, PPow(p, n - 1))
    ELSE IF Cardinality(p) = 1 /\ \A t \in p : t.c \in {1, -1}
         THEN {[c |-> IntPow(t.c, -n),
                e |-> [i \in 1..Len(Syms) |-> t.e[i] * n]] : t \in p}
    ELSE NaNP

\* The derivative with respect to symbol i.
PDiff(p, i) ==
    IF p = NaNP THEN NaNP
    ELSE {[c |-> t.c * t.e[i], e |-> [t.e EXCEPT ![i] = @ - 1]] :
            t \in {u \in p : u.e[i] # 0}}

\* The value with symbol i replaced by the number a.
PEval(p, i, a) ==
    IF p = NaNP THEN NaNP
    ELSE IF \E t \in p : t.e[i] < 0 /\ a \notin {1, -1} THEN NaNP
    ELSE Collect({[c |-> t.c * IntPow(a, IF t.e[i] < 0 THEN -t.e[i] ELSE t.e[i]),
                   e |-> [t.e EXCEPT ![i] = 0],
                   tag |-> t] : t \in p})

\* p / d for a d that divides every coefficient.
PDivInt(p, d) ==
    IF p = NaNP \/ d = 0 THEN NaNP
    ELSE {[c |-> t.c \div d, e |-> t.e] : t \in p}

RECURSIVE NormArgs(_, _, _)
RECURSIVE Norm(_)
\* The value of a tree.
Norm(e) ==
    CASE e.k = "int" -> PConst(e.n)
      [] e.k = "sym" -> PSym(SymIdx(e.s))
      [] e.k = "add" -> NormArgs(e, 1, "add")
      [] e.k = "mul" -> NormArgs(e, 1, "mul")
      [] e.k = "pow" -> IF e.args[2].k = "int"
                        THEN PPow(Norm(e.args[1]), e.args[2].n) ELSE NaNP
      [] OTHER -> NaNP

NormArgs(e, i, op) ==
    IF i > Len(e.args) THEN (IF op = "add" THEN PConst(0) ELSE PConst(1))
    ELSE IF op = "add" THEN PAdd(Norm(e.args[i]), NormArgs(e, i + 1, op))
    ELSE PMul(Norm(e.args[i]), NormArgs(e, i + 1, op))

\* e1 before e2 in the printer's term order: lexicographic, larger first.
LexGreater(e1, e2) ==
    \E i \in 1..Len(Syms) :
        /\ e1[i] > e2[i]
        /\ \A j \in 1..(i - 1) : e1[j] = e2[j]

RECURSIVE SortTerms(_)
SortTerms(p) ==
    IF p = {} THEN <<>>
    ELSE LET t == CHOOSE u \in p : \A v \in p \ {u} : LexGreater(u.e, v.e)
         IN <<t>> \o SortTerms(p \ {t})

RECURSIVE Factors(_, _)
Factors(e, i) ==
    IF i > Len(Syms) THEN <<>>
    ELSE (IF e[i] = 0 THEN <<>>
          ELSE IF e[i] = 1 THEN <<Symbol(Syms[i])>>
          ELSE <<Pow(Symbol(Syms[i]), Integer(e[i]))>>) \o Factors(e, i + 1)

TermTree(t) ==
    LET fs == Factors(t.e, 1) IN
    IF fs = <<>> THEN Integer(t.c)
    ELSE IF t.c = 1 THEN (IF Len(fs) = 1 THEN fs[1] ELSE Mul(fs))
    ELSE Mul(<<Integer(t.c)>> \o fs)

\* The canonical tree of a value: the number first, as in Add.args, then the
\* other terms in the printer's order.
PolyToTree(p) ==
    IF p = NaNP THEN NaN
    ELSE IF p = {} THEN Integer(0)
    ELSE LET consts == {t \in p : t.e = ZeroE}
             ts == SortTerms(consts) \o SortTerms(p \ consts)
         IN IF Len(ts) = 1 THEN TermTree(ts[1])
            ELSE Add([i \in 1..Len(ts) |-> TermTree(ts[i])])

\* The canonical tree of a tree's value.
Canon(e) == IF e.k \in {"rel", "bool", "none"} THEN e ELSE PolyToTree(Norm(e))

(***************************************************************************)
(* str(): the library's string printer on this fragment                    *)
(***************************************************************************)
DigitChar == <<"0", "1", "2", "3", "4", "5", "6", "7", "8", "9">>

RECURSIVE Digits(_)
Digits(n) ==
    IF n < 10 THEN DigitChar[n + 1]
    ELSE Digits(n \div 10) \o DigitChar[(n % 10) + 1]

IntStr(n) == IF n < 0 THEN "-" \o Digits(-n) ELSE Digits(n)

\* A term the printer writes with a leading minus sign.
IsNegTerm(e) ==
    \/ e.k = "int" /\ e.n < 0
    \/ e.k = "mul" /\ e.args[1].k = "int" /\ e.args[1].n < 0

\* The term without its sign (_keep_coeff(-c, e)).
NegateTerm(e) ==
    IF e.k = "int" THEN Integer(-e.n)
    ELSE IF e.args[1].n = -1
         THEN (IF Len(e.args) = 2 THEN e.args[2] ELSE Mul(Tail(e.args)))
    ELSE Mul(<<Integer(-e.args[1].n)>> \o Tail(e.args))

\* precedence(): Relational 35, Add 40, Mul 50, Pow 60, Atom 1000; a negative
\* number or product has the precedence of Add.
Prec(e) ==
    CASE e.k = "rel" -> 35
      [] e.k = "add" -> 40
      [] e.k = "mul" -> IF IsNegTerm(e) THEN 40 ELSE 50
      [] e.k = "pow" -> 60
      [] e.k = "int" -> IF e.n < 0 THEN 40 ELSE 1000
      [] OTHER -> 1000

\* A factor the printer moves below the fraction bar.
IsDenominator(e) == e.k = "pow" /\ e.args[2].k = "int" /\ e.args[2].n < 0

\* What the printer writes below the bar for it.
Inverted(e) ==
    IF e.args[2].n = -1 THEN e.args[1]
    ELSE Pow(e.args[1], Integer(-e.args[2].n))

\* Add's terms in the order printed: the number moves to the end, except in
\* "1 - x" (a positive number and a negated product of two factors).
PrintOrder(args) ==
    IF args[1].k # "int" THEN args
    ELSE IF /\ Len(args) = 2
            /\ args[1].n > 0
            /\ args[2].k = "mul"
            /\ Len(args[2].args) = 2
            /\ IsNegTerm(args[2])
         THEN args
    ELSE Tail(args) \o <<args[1]>>

RECURSIVE Str(_)
RECURSIVE Paren(_, _)
RECURSIVE JoinFactors(_, _, _)
RECURSIVE JoinTerms(_, _)

\* parenthesize(item, level, strict=False).
Paren(e, level) ==
    IF Prec(e) <= level THEN "(" \o Str(e) \o ")" ELSE Str(e)

\* '*'.join of the factors from position i on.
JoinFactors(fs, i, level) ==
    IF i > Len(fs) THEN ""
    ELSE (IF i > 1 THEN "*" ELSE "") \o Paren(fs[i], level)
         \o JoinFactors(fs, i + 1, level)

\* _print_Add's "sign term" list from position i on.
JoinTerms(ts, i) ==
    IF i > Len(ts) THEN ""
    ELSE LET neg == IsNegTerm(ts[i])
             body == IF neg THEN Str(NegateTerm(ts[i])) ELSE Str(ts[i])
         IN (IF i = 1 THEN (IF neg THEN "-" ELSE "")
             ELSE (IF neg THEN " - " ELSE " + "))
            \o body \o JoinTerms(ts, i + 1)

\* _print_Mul of a product without a sign.
MulStr(e) ==
    LET level == Prec(e)
        nums == SelectSeq(e.args, LAMBDA a : ~IsDenominator(a))
        dens == SelectSeq(e.args, LAMBDA a : IsDenominator(a))
        inv == [i \in 1..Len(dens) |-> Inverted(dens[i])]
        top == IF nums = <<>> THEN "1" ELSE JoinFactors(nums, 1, level)
    IN IF inv = <<>> THEN top
       ELSE IF Len(inv) = 1 THEN top \o "/" \o Paren(inv[1], level)
       ELSE top \o "/(" \o JoinFactors(inv, 1, level) \o ")"

Str(e) ==
    CASE e.k = "int" -> IntStr(e.n)
      [] e.k = "sym" -> e.s
      [] e.k = "add" -> JoinTerms(PrintOrder(e.args), 1)
      [] e.k = "mul" -> IF IsNegTerm(e) THEN "-" \o Str(NegateTerm(e))
                        ELSE MulStr(e)
      [] e.k = "pow" -> IF e.args[2].k = "int" /\ e.args[2].n = -1
                        THEN "1/" \o Paren(e.args[1], 60)
                        ELSE Paren(e.args[1], 60) \o "**" \o Paren(e.args[2], 60)
      [] e.k = "rel" -> Paren(e.args[1], 35) \o " " \o e.s \o " "
                        \o Paren(e.args[2], 35)
      [] e.k = "bool" -> IF e.n = 1 THEN "True" ELSE "False"
      [] e.k = "nan" -> "nan"
      [] OTHER -> "None"

(***************************************************************************)
(* sympify(): the texts the requests use and the trees they parse to       *)
(***************************************************************************)
X == Symbol("x")

Y == Symbol("y")

Z == Symbol("z")

\* No tree: the text is not an expression (SympifyError).
FunctionTexts ==
    {"", "x +", "x", "3", "x + 1", "1+x", "x*y", "x**2", "x**2 + y**2",
     "x/y", "x/y**2", "x + z**2", "(x + 1)**2", "x**2*y + x**2", "x > 1"}

Sympify(s) ==
    CASE s = "x" -> X
      [] s = "3" -> Integer(3)
      [] s = "x + 1" -> Add(<<Integer(1), X>>)
      [] s = "1+x" -> Add(<<Integer(1), X>>)
      [] s = "x*y" -> Mul(<<X, Y>>)
      [] s = "x**2" -> Pow(X, Integer(2))
      [] s = "x**2 + y**2" -> Add(<<Pow(X, Integer(2)), Pow(Y, Integer(2))>>)
      [] s = "x/y" -> Mul(<<X, Pow(Y, Integer(-1))>>)
      [] s = "x/y**2" -> Mul(<<X, Pow(Y, Integer(-2))>>)
      [] s = "x + z**2" -> Add(<<X, Pow(Z, Integer(2))>>)
      [] s = "(x + 1)**2" -> Pow(Add(<<Integer(1), X>>), Integer(2))
      [] s = "x**2*y + x**2" ->
            Add(<<Mul(<<Pow(X, Integer(2)), Y>>), Pow(X, Integer(2))>>)
      [] s = "x > 1" -> Rel(">", X, Integer(1))
      [] OTHER -> NoExpr

(***************************************************************************)
(* The adapter operations the program calls                                *)
(***************************************************************************)
\* sp.diff(term, var).
SpDiff(e, v) == PolyToTree(PDiff(Norm(e), SymIdx(v)))

\* term.subs(var, point); a relational between the symbol and a number
\* becomes a Boolean atom.
SpSubsPoint(e, v, a) ==
    IF e.k = "rel"
    THEN (IF e.args[1] = Symbol(v) /\ e.args[2].k = "int"
          THEN BoolAtom(a > e.args[2].n) ELSE e)
    ELSE PolyToTree(PEval(Norm(e), SymIdx(v), a))

RECURSIVE Subs(_, _, _)
\* result.subs(old, new): every subtree equal to old is replaced, and a node
\* whose args changed is rebuilt in canonical form.
Subs(e, old, new) ==
    IF e = old THEN new
    ELSE IF IsAtom(e) THEN e
    ELSE LET args2 == [i \in 1..Len(e.args) |-> Subs(e.args[i], old, new)]
         IN IF args2 = e.args THEN e ELSE Canon([e EXCEPT !.args = args2])

\* result.simplify(): the canonical tree of the value.
Simplify(e) == Canon(e)

(***************************************************************************)
(* Texts of the request: sequences of characters                           *)
(***************************************************************************)
RECURSIVE SplitFrom(_, _, _, _)
SplitFrom(s, sep, i, cur) ==
    IF i > Len(s) THEN <<cur>>
    ELSE IF s[i] = sep THEN <<cur>> \o SplitFrom(s, sep, i + 1, <<>>)
    ELSE SplitFrom(s, sep, i + 1, Append(cur, s[i]))

\* str.split(sep): one part more than there are separators.
Split(s, sep) == SplitFrom(s, sep, 1, <<>>)

RECURSIVE LStrip(_)
LStrip(s) == IF s # <<>> /\ Head(s) = " " THEN LStrip(Tail(s)) ELSE s

RECURSIVE RStrip(_)
RStrip(s) ==
    IF s # <<>> /\ s[Len(s)] = " " THEN RStrip(SubSeq(s, 1, Len(s) - 1)) ELSE s

\* str.strip().
Strip(s) == RStrip(LStrip(s))

IsDigit(c) == \E d \in 1..Len(DigitChar) : DigitChar[d] = c

DigitVal(c) == (CHOOSE d \in 1..Len(DigitChar) : DigitChar[d] = c) - 1

RECURSIVE DigitsValue(_, _)
DigitsValue(s, acc) ==
    IF s = <<>> THEN acc
    ELSE DigitsValue(Tail(s), 10 * acc + DigitVal(Head(s)))

\* float(text) on signs, digits and blanks: [ok, v].
PyFloat(text) ==
    LET t == Strip(text)
        signed == t # <<>> /\ Head(t) \in {"-", "+"}
        body == IF signed THEN Tail(t) ELSE t
        ok == body # <<>> /\ \A i \in 1..Len(body) : IsDigit(body[i])
    IN [ok |-> ok,
        v |-> IF ~ok THEN 0
              ELSE IF signed /\ Head(t) = "-" THEN -DigitsValue(body, 0)
              ELSE DigitsValue(body, 0)]

\* int(text), the same on these texts.
PyInt(text) == PyFloat(text)

RECURSIVE JoinChars(_)
JoinChars(cs) == IF cs = <<>> THEN "" ELSE Head(cs) \o JoinChars(Tail(cs))

\* sp.symbols(names): the names between blanks; none is an error (<<>>), one
\* is a Symbol, several are a tuple of Symbols.
Symbols(text) ==
    LET parts == SelectSeq(Split(Strip(text), " "), LAMBDA p : p # <<>>)
    IN [i \in 1..Len(parts) |-> JoinChars(parts[i])]

\* An unpacking that takes the first and the last part of any number of parts.
UnpackFirstLast(parts) ==
    [ok |-> TRUE, var |-> parts[1], value |-> parts[Len(parts)]]

\* "for var, value in [...]": the unpacking needs exactly two parts.
Unpack(parts) ==
    [ok |-> Len(parts) = 2, var |-> parts[1], value |-> parts[Len(parts)]]

\* What goes wrong with one "var=value" segment ("" when nothing does).
PairError(seg) ==
    LET u == Unpack(Split(seg, "="))
    IN IF ~u.ok THEN "wrong number of values to unpack"
       ELSE IF Symbols(Strip(u.var)) = <<>> THEN "no symbols given"
       ELSE IF ~PyFloat(Strip(u.value)).ok
            THEN "could not convert string to float"
       ELSE ""

PairOf(seg) ==
    LET u == Unpack(Split(seg, "="))
    IN [var |-> Symbols(Strip(u.var)), point |-> PyFloat(Strip(u.value)).v]

\* parse_inputs: [ok, err, f, vars_list, exp_points].
ParseInputs(function_expr, variables, expansions) ==
    LET g == Sympify(function_expr)
        vtoks == Split(variables, ",")
        vsyms == [i \in 1..Len(vtoks) |-> Symbols(Strip(vtoks[i]))]
        segs == Split(expansions, ";")
        bad == {i \in 1..Len(segs) : PairError(segs[i]) # ""}
        fail(msg) == [ok |-> FALSE, err |-> "Input parsing error: " \o msg,
                      f |-> NoExpr, vars_list |-> <<>>, exp_points |-> <<>>]
    IN IF g = NoExpr THEN fail("could not parse the expression")
       ELSE IF \E i \in 1..Len(vsyms) : vsyms[i] = <<>>
            THEN fail("no symbols given")
       ELSE IF bad # {}
            THEN fail(PairError(segs[CHOOSE i \in bad : \A j \in bad : i <= j]))
       ELSE [ok |-> TRUE, err |-> "", f |-> g, vars_list |-> vsyms,
             exp_points |-> [i \in 1..Len(segs) |-> PairOf(segs[i])]]

(***************************************************************************)
(* decompose_function and the two sorts                                    *)
(***************************************************************************)
\* The sort key of both sorts: len(str(x[0])).
KeyLen(x) == Len(Str(x.expr))

RECURSIVE InsertAscUnstable(_, _)
\* An insertion that goes before the items of the same key.
InsertAscUnstable(s, x) ==
    IF s = <<>> THEN <<x>>
    ELSE IF KeyLen(Head(s)) < KeyLen(x)
         THEN <<Head(s)>> \o InsertAscUnstable(Tail(s), x)
    ELSE <<x>> \o s

RECURSIVE InsertAsc(_, _)
\* list.sort inserts an item after the items whose key is not larger.
InsertAsc(s, x) ==
    IF s = <<>> THEN <<x>>
    ELSE IF KeyLen(Head(s)) <= KeyLen(x)
         THEN <<Head(s)>> \o InsertAsc(Tail(s), x)
    ELSE <<x>> \o s

RECURSIVE SortAscFrom(_, _, _)
SortAscFrom(s, i, acc) ==
    IF i > Len(s) THEN acc ELSE SortAscFrom(s, i + 1, InsertAsc(acc, s[i]))

\* list.sort(key=...): stable, ascending.
SortAsc(s) == SortAscFrom(s, 1, <<>>)

RECURSIVE InsertDesc(_, _)
InsertDesc(s, x) ==
    IF s = <<>> THEN <<x>>
    ELSE IF KeyLen(Head(s)) >= KeyLen(x)
         THEN <<Head(s)>> \o InsertDesc(Tail(s), x)
    ELSE <<x>> \o s

RECURSIVE SortDescFrom(_, _, _)
SortDescFrom(s, i, acc) ==
    IF i > Len(s) THEN acc ELSE SortDescFrom(s, i + 1, InsertDesc(acc, s[i]))

\* sorted(..., reverse=True): stable, descending.
SortDesc(s) == SortDescFrom(s, 1, <<>>)

\* A filter that lets symbols through.
IsComponentWithAtoms(e) == e.k \notin {"int", "bool", "nan", "none"}

\* A node the decomposer keeps: not an atom, with a free symbol.
IsComponent(e) == ~IsAtom(e) /\ FreeSymbols(e) # {}

\* decompose_function: [ok, components].
DecomposeFunction(function_expr) ==
    LET g == Sympify(function_expr)
        kept == SelectSeq(Preorder(g), IsComponent)
    IN IF g = NoExpr THEN [ok |-> FALSE, components |-> <<>>]
       ELSE [ok |-> TRUE,
             components |-> SortAsc([i \in 1..Len(kept) |->
                 [expr |-> kept[i], vars |-> FreeSymbols(kept[i])]])]

\* expansions[comp] = comp_expansion on a dict that keeps insertion order.
DictSet(d, key, val) ==
    IF \E i \in 1..Len(d) : d[i].expr = key
    THEN [i \in 1..Len(d) |->
            IF d[i].expr = key THEN [expr |-> key, expansion |-> val] ELSE d[i]]
    ELSE Append(d, [expr |-> key, expansion |-> val])

(***************************************************************************)
(* The request handler                                                     *)
(***************************************************************************)
VARIABLES req, pc, order, f, vars_list, exp_points, components, steps,
          expansions, ci, pj, comp_expansion, t_f, t_var, t_point, n, term,
          fact, expansion, sorted_expansions, sk, result, response

vars == <<req, pc, order, f, vars_list, exp_points, components, steps,
          expansions, ci, pj, comp_expansion, t_f, t_var, t_point, n, term,
          fact, expansion, sorted_expansions, sk, result, response>>

parsed == <<f, vars_list, exp_points>>

series == <<components, steps, expansions, ci, pj, comp_expansion>>

taylor == <<t_f, t_var, t_point, n, term, fact, expansion>>

subst == <<sorted_expansions, sk, result>>

RECURSIVE DigitsSeq(_)
DigitsSeq(k) ==
    IF k < 10 THEN <<DigitChar[k + 1]>>
    ELSE DigitsSeq(k \div 10) \o <<DigitChar[(k % 10) + 1]>>

IntText(k) == IF k < 0 THEN <<"-">> \o DigitsSeq(-k) ELSE DigitsSeq(k)

VariableTexts == {<<"x">>, <<"y">>, <<"x", ",", " ", "y">>, <<>>}

ExpansionTexts ==
    {<<"x", "=", "1">>,
     <<"x", "=", "0", ";", "y", "=", "1">>,
     <<"x", "=", "1", ";", " ", "y", "=", "-", "1">>,
     <<"x">>,
     <<"x", "=", "1", "=", "0">>,
     <<"x", "=", "a">>}

OrderTexts == {IntText(k) : k \in -1..MaxOrder} \cup {<<"a">>}

Requests ==
    [function : FunctionTexts, variables : VariableTexts,
     expansions : ExpansionTexts, order : OrderTexts]

\* No response yet.
NoResponse == [pending |-> TRUE]

Start(r) ==
    /\ req = r
    /\ pc = "start"
    /\ order = 0
    /\ f = NoExpr
    /\ vars_list = <<>>
    /\ exp_points = <<>>
    /\ components = <<>>
    /\ steps = <<>>
    /\ expansions = <<>>
    /\ ci = 0
    /\ pj = 0
    /\ comp_expansion = NoExpr
    /\ t_f = NoExpr
    /\ t_var = ""
    /\ t_point = 0
    /\ n = 0
    /\ term = NoExpr
    /\ fact = 1
    /\ expansion = NoExpr
    /\ sorted_expansions = <<>>
    /\ sk = 0
    /\ result = NoExpr
    /\ response = NoResponse

Init == \E r \in Requests : Start(r)

\* An error payload that also carries the trace so far.
ErrorPayloadWithSteps(msg) ==
    [success |-> FALSE, error |-> msg, steps |-> steps]

\* The except branch of calculate: only the message goes out.
ErrorPayload(msg) == [success |-> FALSE, error |-> msg]

SuccessPayload(st, final_result) ==
    [success |-> TRUE, steps |-> st, result |-> final_result]

\* An exception reaches the except branch of calculate.
Raise(msg) ==
    /\ response' = ErrorPayload(msg)
    /\ pc' = "done"

\* calculate, up to int(data['order']).
ReadRequest ==
    /\ pc = "start"
    /\ LET o == PyInt(req.order)
       IN IF o.ok
          THEN /\ order' = o.v
               /\ pc' = "parse"
               /\ UNCHANGED response
          ELSE /\ Raise("invalid literal for int() with base 10")
               /\ UNCHANGED order
    /\ UNCHANGED <<req, parsed, series, taylor, subst>>

\* calculator.parse_inputs(function_expr, variables, expansions).
ParseStep ==
    /\ pc = "parse"
    /\ LET r == ParseInputs(req.function, req.variables, req.expansions)
       IN IF r.ok
          THEN /\ f' = r.f
               /\ vars_list' = r.vars_list
               /\ exp_points' = r.exp_points
               /\ pc' = "decompose"
               /\ UNCHANGED response
          ELSE /\ Raise(r.err)
               /\ UNCHANGED parsed
    /\ UNCHANGED <<req, order, series, taylor, subst>>

\* An insertion at the front of the trace.
PrependStep(st, entry) == <<entry>> \o st

\* steps.append: the trace grows at its end.
AppendStep(st, entry) == Append(st, entry)

\* calculate_series, step 1: decompose str(f) and record the components.
Decompose ==
    /\ pc = "decompose"
    /\ LET r == DecomposeFunction(Str(f))
       IN IF r.ok
          THEN /\ components' = r.components
               /\ steps' = AppendStep(<<>>,
                     [step |-> "decomposition",
                      components |-> [i \in 1..Len(r.components) |->
                                         Str(r.components[i].expr)]])
               /\ expansions' = <<>>
               /\ ci' = 1
               /\ pc' = "component"
               /\ UNCHANGED response
          ELSE /\ Raise("Function decomposition error: could not parse")
               /\ UNCHANGED <<components, steps, expansions, ci>>
    /\ UNCHANGED <<req, order, parsed, pj, comp_expansion, taylor, subst>>

\* for comp, comp_vars in components: comp_expansion = comp.
BeginComponent ==
    /\ pc = "component"
    /\ ci <= Len(components)
    /\ comp_expansion' = components[ci].expr
    /\ pj' = 1
    /\ pc' = "point"
    /\ UNCHANGED <<req, order, parsed, components, steps, expansions, ci,
                   taylor, subst, response>>

\* "var in comp_vars" for a parsed point: a tuple of symbols is in no list.
Applicable(p, comp) == Len(p.var) = 1 /\ p.var[1] \in comp.vars

\* A sum that starts from the expression itself.
InitialExpansionIsF(g) == g

\* compute_univariate_taylor starts with expansion = 0.
InitialExpansion(g) == Integer(0)

\* for var, point in expansion_points: if var in comp_vars, call
\* compute_univariate_taylor(comp_expansion, var, point, order).
PointStep ==
    /\ pc = "point"
    /\ pj <= Len(exp_points)
    /\ IF Applicable(exp_points[pj], components[ci])
       THEN /\ t_f' = comp_expansion
            /\ t_var' = exp_points[pj].var[1]
            /\ t_point' = exp_points[pj].point
            /\ expansion' = InitialExpansion(comp_expansion)
            /\ term' = comp_expansion
            /\ fact' = 1
            /\ n' = 0
            /\ pc' = "taylor"
            /\ UNCHANGED pj
       ELSE /\ pj' = pj + 1
            /\ UNCHANGED <<pc, taylor>>
    /\ UNCHANGED <<req, order, parsed, components, steps, expansions, ci,
                   comp_expansion, subst, response>>

\* A factorial that adds.
NextFactAdds(fa, k) == IF k > 0 THEN fa + k ELSE fa

\* if n > 0: fact *= n.
NextFact(fa, k) == IF k > 0 THEN fa * k ELSE fa

\* for n in range(order + 1).
LoopContinues(k, ord) == k < ord + 1

\* term_at_point * (var - point)**n / fact.
TaylorTerm(term_at_point, v, a, k, fa) ==
    PolyToTree(PDivInt(
        PMul(Norm(term_at_point),
             PPow(PAdd(PSym(SymIdx(v)), PConst(-a)), k)),
        fa))

\* One iteration of the loop of compute_univariate_taylor.  A Boolean is no
\* operand of * (TypeError).
TaylorIter ==
    /\ pc = "taylor"
    /\ LoopContinues(n, order)
    /\ LET term2 == IF n > 0 THEN SpDiff(term, t_var) ELSE term
           fact2 == NextFact(fact, n)
           term_at_point == SpSubsPoint(term2, t_var, t_point)
       IN IF term_at_point.k \in {"bool", "rel"}
          THEN /\ Raise("unsupported operand type(s) for *")
               /\ UNCHANGED taylor
          ELSE /\ term' = term2
               /\ fact' = fact2
               /\ expansion' = PolyToTree(PAdd(Norm(expansion),
                     Norm(TaylorTerm(term_at_point, t_var, t_point, n, fact2))))
               /\ n' = n + 1
               /\ UNCHANGED <<pc, response, t_f, t_var, t_point>>
    /\ UNCHANGED <<req, order, parsed, series, subst>>

\* return expansion, assigned to comp_expansion.
TaylorReturn ==
    /\ pc = "taylor"
    /\ ~LoopContinues(n, order)
    /\ comp_expansion' = expansion
    /\ pj' = pj + 1
    /\ pc' = "point"
    /\ UNCHANGED <<req, order, parsed, components, steps, expansions, ci,
                   taylor, subst, response>>

\* expansions[comp] = comp_expansion; steps.append({...}).
EndComponent ==
    /\ pc = "point"
    /\ pj > Len(exp_points)
    /\ expansions' = DictSet(expansions, components[ci].expr, comp_expansion)
    /\ steps' = AppendStep(steps,
          [component |-> Str(components[ci].expr),
           expansion |-> Str(comp_expansion)])
    /\ ci' = ci + 1
    /\ pc' = "component"
    /\ UNCHANGED <<req, order, parsed, components, pj, comp_expansion,
                   taylor, subst, response>>

\* substitute_expansions: result = original; the items sorted largest first.
SubstituteStart ==
    /\ pc = "component"
    /\ ci > Len(components)
    /\ result' = f
    /\ sorted_expansions' = SortDesc(expansions)
    /\ sk' = 1
    /\ pc' = "substitute"
    /\ UNCHANGED <<req, order, parsed, series, taylor, response>>

\* result = result.subs(expr, expansion).
SubstituteStep ==
    /\ pc = "substitute"
    /\ sk <= Len(sorted_expansions)
    /\ result' = Subs(result, sorted_expansions[sk].expr,
                      sorted_expansions[sk].expansion)
    /\ sk' = sk + 1
    /\ UNCHANGED <<req, pc, order, parsed, series, taylor,
                   sorted_expansions, response>>

\* return result, steps; str(result.simplify()); the success payload.
Respond ==
    /\ pc = "substitute"
    /\ sk > Len(sorted_expansions)
    /\ response' = SuccessPayload(steps, Str(Simplify(result)))
    /\ pc' = "done"
    /\ UNCHANGED <<req, order, parsed, series, taylor, subst>>

Next ==
    \/ ReadRequest
    \/ ParseStep
    \/ Decompose
    \/ BeginComponent
    \/ PointStep
    \/ TaylorIter
    \/ TaylorReturn
    \/ EndComponent
    \/ SubstituteStart
    \/ SubstituteStep
    \/ Respond

Spec == Init /\ [][Next]_vars

(***************************************************************************)
(* The parser on every expansions text up to MaxTextLen characters         *)
(***************************************************************************)
ParseAlphabet == {"x", "y", "=", ";", "1", " "}

RECURSIVE TextsOfLen(_)
TextsOfLen(k) ==
    IF k = 0 THEN {<<>>}
    ELSE {Append(t, c) : t \in TextsOfLen(k - 1), c \in ParseAlphabet}

AllTexts == UNION {TextsOfLen(k) : k \in 0..MaxTextLen}

InitParse ==
    \E fn \in {"x*y", "x"}, vs \in {<<"x">>, <<"x", ",", "y">>}, ex \in AllTexts :
        Start([function |-> fn, variables |-> vs, expansions |-> ex,
               order |-> <<"1">>])

SpecParse == InitParse /\ [][Next]_vars

(***************************************************************************)
(* Properties                                                              *)
(***************************************************************************)
\* The variables the request declares.
Declared == UNION {{vars_list[j][i] : i \in 1..Len(vars_list[j])} :
                     j \in 1..Len(vars_list)}

\* calculate_series has decomposed f (the trace holds its first step).
Decomposed == steps # <<>>

\* parse_inputs has returned a triple.
ParsedOk == f # NoExpr

IsErrorPayload(r) ==
    /\ DOMAIN r = {"success", "error"}
    /\ r.success = FALSE
    /\ r.error # ""

IsSuccessPayload(r) ==
    /\ DOMAIN r = {"success", "steps", "result"}
    /\ r.success = TRUE

\* C1: a finished request is answered by a complete success payload (the
\* whole trace and the result) or by an error payload that carries a
\* non-empty message and neither steps nor result, whatever the trace held
\* when the failure happened; before that there is no response.
C1_AllOrNothing ==
    IF pc = "done"
    THEN \/ /\ IsSuccessPayload(response)
            /\ response.steps = steps
            /\ Len(response.steps) = 1 + Len(components)
         \/ IsErrorPayload(response)
    ELSE response = NoResponse

\* A request that failed after the decomposition step was appended.
C1_Witness ==
    /\ pc = "done"
    /\ IsErrorPayload(response)
    /\ steps # <<>>

\* Each declared variable has exactly one point and each point's variable is
\* declared.
OneToOne ==
        /\ Len(exp_points) = Len(vars_list)
        /\ \A i \in 1..Len(exp_points) :
              \E j \in 1..Len(vars_list) : exp_points[i].var = vars_list[j]
        /\ \A j \in 1..Len(vars_list) :
              Cardinality({i \in 1..Len(exp_points) :
                              exp_points[i].var = vars_list[j]}) = 1

\* C2: after a successful parse the expansion points and the declared
\* variables are in one-to-one correspondence (a parse with another number
\* of points, or with a point for an undeclared variable, fails).
C2_PointsMatchVariables == ParsedOk => OneToOne

\* The number of c in positions a+1 .. b-1 of the text.
CountBetween(text, a, b, c) ==
    Cardinality({i \in (a + 1)..(b - 1) : text[i] = c})

\* Some ';'-separated segment of the text does not hold exactly one '='.
HasBadSegment(text) ==
    \E a \in 0..Len(text), b \in 1..(Len(text) + 1) :
        /\ a < b
        /\ a = 0 \/ text[a] = ";"
        /\ b = Len(text) + 1 \/ text[b] = ";"
        /\ CountBetween(text, a, b, ";") = 0
        /\ CountBetween(text, a, b, "=") # 1

ParseErrors ==
    {"Input parsing error: " \o m :
        m \in {"could not parse the expression", "no symbols given",
               "wrong number of values to unpack",
               "could not convert string to float"}}

\* C3: when some segment of the expansions text does not contain exactly
\* one '=', parse_inputs raises its input-parsing error and returns no
\* (expr, variables, points) triple.
C3_MalformedPairRejected ==
    (pc \notin {"start", "parse"} /\ PyInt(req.order).ok
     /\ HasBadSegment(req.expansions)) =>
        /\ pc = "done"
        /\ IsErrorPayload(response)
        /\ response.error \in ParseErrors
        /\ f = NoExpr /\ vars_list = <<>> /\ exp_points = <<>>

\* A rejected text with a segment that holds two '=', the function and the
\* variables being fine.
C3_Witness ==
    /\ pc = "done"
    /\ Sympify(req.function) # NoExpr
    /\ \E i \in 1..(Len(req.expansions) - 1) :
          req.expansions[i] = "=" /\ req.expansions[i + 1] = "="
    /\ IsErrorPayload(response)
    /\ response.error = "Input parsing error: wrong number of values to unpack"

RECURSIVE SubsAllPoints(_, _, _)
\* e with every point's variable replaced by the point.
SubsAllPoints(e, pts, i) ==
    IF i > Len(pts) THEN e
    ELSE SubsAllPoints(SpSubsPoint(e, pts[i].var[1], pts[i].point), pts, i + 1)

\* One point per declared variable, each a single symbol.
ValidInputs ==
    /\ ParsedOk
    /\ \A j \in 1..Len(vars_list) : Len(vars_list[j]) = 1
    /\ OneToOne

\* C4: for valid inputs and order 0 the result is the original expression
\* with every variable replaced by its expansion point.
C4_ZerothOrderIsPointEvaluation ==
    (pc = "done" /\ ValidInputs /\ order = 0 /\ IsSuccessPayload(response)) =>
        response.result = Str(Simplify(SubsAllPoints(f, exp_points, 1)))

RECURSIVE NthDeriv(_, _, _)
NthDeriv(p, i, k) == IF k = 0 THEN p ELSE PDiff(NthDeriv(p, i, k - 1), i)

RECURSIVE Factorial(_)
Factorial(k) == IF k <= 0 THEN 1 ELSE k * Factorial(k - 1)

RECURSIVE TaylorSum(_, _, _, _)
\* The sum over m = 0..k of f^(m)(a) * (x_i - a)^m / m!.
TaylorSum(p, i, a, k) ==
    IF k < 0 THEN PConst(0)
    ELSE PAdd(TaylorSum(p, i, a, k - 1),
              PDivInt(PMul(PEval(NthDeriv(p, i, k), i, a),
                           PPow(PAdd(PSym(i), PConst(-a)), k)),
                      Factorial(k)))

\* p is a polynomial in symbol i of degree at most d.
PolyOfDegreeAtMost(p, i, d) ==
    p # NaNP /\ \A t \in p : t.e[i] >= 0 /\ t.e[i] <= d

\* The last point of the component was expanded by compute_univariate_taylor
\* and the call has returned.
TaylorReturned ==
    /\ pc = "point"
    /\ pj > 1
    /\ Applicable(exp_points[pj - 1], components[ci])

\* C5: in compute_univariate_taylor, once iteration m has added its term,
\* term is the m-th derivative of the input, fact is m! and the sum holds the
\* terms 0..m; for an order >= 0 the call returns after order + 1 iterations
\* the Taylor sum up to that order, which for order 0 is the input evaluated
\* at the point and for a polynomial of degree <= order is the polynomial.
C5_TaylorLoop ==
    /\ (pc = "taylor" /\ t_f.k # "rel") =>
          LET i == SymIdx(t_var)
              p == Norm(t_f)
          IN /\ n <= (IF order >= 0 THEN order + 1 ELSE 0)
             /\ n >= 1 => /\ Norm(term) = NthDeriv(p, i, n - 1)
                          /\ fact = Factorial(n - 1)
             /\ Norm(expansion) = TaylorSum(p, i, t_point, n - 1)
    /\ (TaylorReturned /\ order >= 0) =>
          LET i == SymIdx(t_var)
              p == Norm(t_f)
          IN /\ n = order + 1
             /\ Norm(comp_expansion) = TaylorSum(p, i, t_point, order)
             /\ order = 0 => Norm(comp_expansion) = PEval(p, i, t_point)
             /\ PolyOfDegreeAtMost(p, i, order) => Norm(comp_expansion) = p

\* x**2 expanded to order 2 about x = 1 has returned.
C5_Witness ==
    /\ TaylorReturned
    /\ order = 2
    /\ t_f = Pow(X, Integer(2))
    /\ t_point = 1
    /\ Norm(comp_expansion) = Norm(t_f)

\* How often x occurs in the sequence s.
Count(s, x) == Cardinality({i \in 1..Len(s) : s[i] = x})

ComponentExprs == [i \in 1..Len(components) |-> components[i].expr]

\* The components are the nodes of f, each as often as it occurs, that Q
\* holds of.
ComponentsAre(Q(_)) ==
    LET want == SelectSeq(Preorder(f), Q)
    IN /\ Len(want) = Len(components)
       /\ \A i \in 1..Len(want) :
             Count(ComponentExprs, want[i]) = Count(want, want[i])

HasDeclaredVariable(e) == ~IsAtom(e) /\ FreeSymbols(e) \cap Declared # {}

HasFreeSymbol(e) == ~IsAtom(e) /\ FreeSymbols(e) # {}

ExpansionOf(e) ==
    (CHOOSE it \in {expansions[k] : k \in 1..Len(expansions)} : it.expr = e).expansion

\* The trace so far: the decomposition step, then one entry per finished
\* component in the order of the component list.
C8_TraceShape ==
    Decomposed =>
        /\ steps[1] = [step |-> "decomposition",
                       components |-> [i \in 1..Len(components) |->
                                          Str(components[i].expr)]]
        /\ Len(steps) <= 1 + Len(components)
        /\ \A k \in 2..Len(steps) :
              /\ DOMAIN steps[k] = {"component", "expansion"}
              /\ steps[k].component = Str(components[k - 1].expr)
              /\ steps[k].expansion = Str(ExpansionOf(components[k - 1].expr))
        /\ (pc = "done" /\ IsSuccessPayload(response)) =>
              /\ response.steps = steps
              /\ Len(steps) = 1 + Len(components)

\* A step leaves the entries of the trace as they are and adds at most one
\* at the end.
C8_TraceGrowsAtTheEnd ==
    /\ Len(steps') \in {Len(steps), Len(steps) + 1}
    /\ SubSeq(steps', 1, Len(steps)) = steps

\* C8: the trace starts with the decomposition step that lists every
\* component, then holds one entry per component in the order of the
\* component list, each with the component's final expansion, 1 + (number
\* of components) entries in a successful call; an entry once appended is
\* never changed, removed or moved.
C8_TraceAppendOnly == []C8_TraceShape /\ [][C8_TraceGrowsAtTheEnd]_vars

\* A successful call with at least two component entries.
C8_Witness ==
    /\ pc = "done"
    /\ IsSuccessPayload(response)
    /\ Len(response.steps) >= 3

\* a occurs in b and is not b.
ProperSub(a, b) == a # b /\ \E i \in 1..Len(Preorder(b)) : Preorder(b)[i] = a

\* C9: the substitutions are applied in non-increasing order of the length
\* of the component's text, so no component has been substituted while a
\* component that contains it as a proper sub-expression is still to come.
C9_OuterBeforeInner ==
    \A i, j \in 1..Len(sorted_expansions) :
        (i < j /\ i < sk) =>
            /\ KeyLen(sorted_expansions[i]) >= KeyLen(sorted_expansions[j])
            /\ ~ProperSub(sorted_expansions[i].expr, sorted_expansions[j].expr)

\* C10: with a negative order compute_univariate_taylor never iterates,
\* differentiates or evaluates and returns 0; every component with an
\* applicable point gets the expansion 0 and a parsed request ends with the
\* success payload.
C10_NegativeOrder ==
    order < 0 =>
        /\ pc = "taylor" => n = 0 /\ term = t_f /\ expansion = Integer(0)
        /\ TaylorReturned => comp_expansion = Integer(0)
        /\ (pc = "done" /\ ParsedOk) =>
              /\ IsSuccessPayload(response)
              /\ Len(response.steps) = 1 + Len(components)
              /\ \A k \in 1..Len(components) :
                    (\E p \in 1..Len(exp_points) :
                        Applicable(exp_points[p], components[k]))
                    => response.steps[k + 1].expansion = "0"

\* A request of negative order answered with a component expanded to 0.
C10_Witness ==
    /\ pc = "done"
    /\ order < 0
    /\ IsSuccessPayload(response)
    /\ \E k \in 2..Len(response.steps) : response.steps[k].expansion = "0"
====
